---- MODULE Spec2Model ----
(***************************************************************************)
(* A model of graphyte.Sender (src/graphyte.py): the bounded queue, the    *)
(* background thread loop that batches and flushes on an interval, and     *)
(* the stop()/join shutdown, together with the producer threads that call  *)
(* send() and the threads that call stop() (an explicit caller, the        *)
(* atexit hook, __del__).                                                  *)
(*                                                                         *)
(* Time is measured in clock ticks, TicksPerSecond to the second.  The     *)
(* loop only ever uses the difference time.time() - last_check_time, so    *)
(* the model keeps that difference (since_check) rather than the two       *)
(* absolute instants; it saturates at MaxElapsed, above every interval.    *)
(***************************************************************************)
EXTENDS Integers, Sequences, FiniteSets, TLC

\* ---- bounds of the model ----
MaxSends == 2
MaxStops == 2
MaxElapsed == 2

\* ---- program constants ----
\* Python's None: the value of self.interval in synchronous mode, the value
\* of an omitted queue_size, and the "stop thread" element of the queue.
\* Payloads are numbered from 1, intervals and queue sizes are >= 1.
None == 0
\* clock ticks per second (an interval of n ticks is n / TicksPerSecond s)
TicksPerSecond == 3
\* int(round(interval)) * 100, line 46
SizeFactor == 100

\* The threads that call send().  queue.Queue serialises the puts of any
\* number of producers under its mutex, so one producer, whose send() runs
\* in two steps beside the background thread and the stop() calls, stands
\* for them.
Producers == {"p1"}
\* The threads that call stop(): an explicit caller and the atexit hook or
\* __del__ (lines 51-54), which may run while another stop() is in join().
Stoppers == {"s1", "s2"}
\* the metric argument of send(), as its characters: a plain name, the
\* empty string, a name with a space in it
Metrics == {<<"f">>, <<>>, <<"f", " ", "b">>}
\* the value argument of send(), by its type
Values == {"int", "str"}
\* the interval argument of the constructor, in ticks (None: synchronous)
Intervals == {None, 1, 2}
\* the queue_size argument of the constructor
QueueSizes == {None, 1}

VARIABLES
    interval,       \* self.interval
    maxsize,        \* self._queue.maxsize
    queue,          \* self._queue: payload ids, None for the stop signal
    wpc,            \* where the background thread is in _thread_loop
    since_check,    \* time.time() - last_check_time
    timeout_left,   \* what is left of the timeout of the blocking get
    messages,       \* _thread_loop's local list
    sent,           \* the calls of send_socket so far, in order
    ppc,            \* where each producer is in send()
    pmsg,           \* the message each producer built
    pres,           \* how each producer's last send() ended
    pargs,          \* the metric and value of each producer's last send()
    rets,           \* the values send() has returned, by what the put did
    dropped,        \* the payloads logged as "queue full" (line 97)
    behind,         \* the payloads queued when the thread took the marker
    spc,            \* where each stopping thread is in stop()
    sres,           \* how each stopping thread's last stop() ended
    snap,           \* the payloads accepted before each thread's stop() began
    nsends,         \* send() calls so far
    nstops,         \* stop() calls so far
    enq,            \* the payloads accepted into the queue, in put order
    nsentinels,     \* how many times stop() has put None on the queue
    ngot_sentinel,  \* how many times the thread has taken None off the queue
    since_flush,    \* ticks since the last periodic send_socket call
    interval0       \* the interval the Sender was constructed with

vars == <<interval, maxsize, queue, wpc, since_check, timeout_left, messages,
          sent, ppc, pmsg, pres, pargs, rets, dropped, behind, spc, sres,
          snap,
          nsends, nstops, enq, nsentinels, ngot_sentinel, since_flush,
          interval0>>

\* ---- pure helpers ----

Max(a, b) == IF a >= b THEN a ELSE b
Min(a, b) == IF a <= b THEN a ELSE b

\* round(n / TicksPerSecond) to the nearest integer.  With three ticks to the
\* second no interval is half way between two integers, so Python 2's and
\* Python 3's round() agree.
RoundSeconds(n) == (2 * n + TicksPerSecond) \div (2 * TicksPerSecond)

\* line 45-46: the queue size __init__ hands to queue.Queue
DefaultQueueSize(ival, queue_size) ==
    IF queue_size = None THEN RoundSeconds(ival) * SizeFactor ELSE queue_size

\* a queue that takes one element more than its maxsize
QueueFullOffByOne(q, size) == size > 0 /\ Len(q) > size

\* queue.Queue.full(): a maxsize <= 0 makes the queue unbounded
QueueFull(q, size) == size > 0 /\ Len(q) >= size

\* ---- the state after construction, lines 36-51 ----
Init ==
    /\ interval \in Intervals
    /\ \E queue_size \in QueueSizes :
          /\ interval = None => queue_size = None
          /\ maxsize = IF interval = None THEN 0
                       ELSE DefaultQueueSize(interval, queue_size)
    /\ interval0 = interval
    /\ queue = <<>>
    /\ wpc = IF interval = None THEN "none" ELSE "start"
    /\ since_check = 0
    /\ timeout_left = 0
    /\ messages = <<>>
    /\ sent = <<>>
    /\ ppc = [p \in Producers |-> "idle"]
    /\ pmsg = [p \in Producers |-> None]
    /\ pres = [p \in Producers |-> "none"]
    /\ pargs = [p \in Producers |-> <<>>]
    /\ rets = [o \in {"queued", "full"} |-> {}]
    /\ dropped = <<>>
    /\ behind = {}
    /\ spc = [s \in Stoppers |-> "idle"]
    /\ sres = [s \in Stoppers |-> "none"]
    /\ snap = [s \in Stoppers |-> {}]
    /\ nsends = 0
    /\ nstops = 0
    /\ enq = <<>>
    /\ nsentinels = 0
    /\ ngot_sentinel = 0
    /\ since_flush = 0

\* ---- send_socket, lines 115-130 ----
\* One call of send_socket: send_message either succeeds or raises, and the
\* exception is logged, never re-raised (lines 122-125).  `who` says which
\* statement made the call.
SendSocket(log, who, batch, ok) ==
    Append(log, [who |-> who, batch |-> batch, ok |-> ok])

\* ---- the clock ----
\* the periodic calls of send_socket among the calls so far
PeriodicCalls(log) == {i \in 1..Len(log) : log[i].who = "periodic"}

\* One tick of time.time() while the background thread is alive: the time
\* since the last check grows and the blocking get's timeout runs down.
\* since_flush is the time since the last periodic call, once there is one.
Tick ==
    /\ wpc \notin {"none", "start", "done"}
    /\ since_check' = Min(since_check + 1, MaxElapsed)
    /\ since_flush' = IF PeriodicCalls(sent) = {} THEN 0
                      ELSE Min(since_flush + 1, MaxElapsed)
    /\ timeout_left' = IF wpc = "get" THEN Max(timeout_left - 1, 0)
                       ELSE timeout_left
    /\ UNCHANGED <<interval, maxsize, queue, wpc, messages, sent, ppc, pmsg,
                   pres, pargs, spc, sres, snap, nsends, nstops, enq, nsentinels,
                   ngot_sentinel, interval0,
                   rets, dropped, behind>>

\* ---- _thread_loop, lines 132-176 ----

\* lines 134-135: last_check_time = time.time(); messages = []
WorkerStart ==
    /\ wpc = "start"
    /\ since_check' = 0
    /\ messages' = <<>>
    /\ wpc' = "wait"
    /\ UNCHANGED <<interval, maxsize, queue, timeout_left, sent, ppc, pmsg,
                   pres, pargs, spc, sres, snap, nsends, nstops, enq, nsentinels,
                   ngot_sentinel, since_flush, interval0,
                   rets, dropped, behind>>

\* a timeout computed without the max(0, ...)
TimeTillNextCheckRaw(ival, elapsed) == ival - elapsed

\* line 140: time_till_next_check = max(0, self.interval - time_since_last_check)
TimeTillNextCheck(ival, elapsed) == Max(0, ival - elapsed)

\* lines 139-142: compute the timeout and enter the blocking get
WorkerWait ==
    /\ wpc = "wait"
    /\ timeout_left' = TimeTillNextCheck(interval, since_check)
    /\ wpc' = "get"
    /\ UNCHANGED <<interval, maxsize, queue, since_check, messages, sent, ppc,
                   pmsg, pres, pargs, spc, sres, snap, nsends, nstops, enq,
                   nsentinels, ngot_sentinel, since_flush, interval0,
                   rets, dropped, behind>>

\* a thread that put each message in front of the ones it holds
CollectFront(msgs, m) == <<m>> \o msgs

\* lines 149 and 162: messages.append(message)
Collect(msgs, m) == Append(msgs, m)

\* the payloads (not the stop marker None) among the elements of q
Payloads(q) == {q[i] : i \in 1..Len(q)} \ {None}

\* lines 142-149: self._queue.get(timeout=...) returns the head of the queue
\* as soon as there is one, and raises queue.Empty once the timeout has run
\* out on an empty queue (the timeout ends with the call).  None breaks out
\* of the loop.
WorkerGet ==
    /\ wpc = "get"
    /\ IF queue # <<>>
       THEN /\ queue' = Tail(queue)
            /\ IF Head(queue) = None
               THEN /\ wpc' = "final"
                    /\ ngot_sentinel' = ngot_sentinel + 1
                    /\ behind' = Payloads(Tail(queue))
                    /\ UNCHANGED messages
               ELSE /\ wpc' = "drain"
                    /\ messages' = Collect(messages, Head(queue))
                    /\ UNCHANGED <<ngot_sentinel, behind>>
       ELSE /\ timeout_left = 0
            /\ wpc' = "check"
            /\ UNCHANGED <<queue, messages, ngot_sentinel, behind>>
    /\ timeout_left' = 0
    /\ UNCHANGED <<interval, maxsize, since_check, sent, ppc,
                   pmsg, pres, pargs, spc, sres, snap, nsends, nstops, enq,
                   nsentinels, since_flush, interval0,
                   rets, dropped>>

\* lines 153-164: one round of the get_nowait loop
WorkerDrain ==
    /\ wpc = "drain"
    /\ IF queue = <<>>
       THEN /\ wpc' = "check"
            /\ UNCHANGED <<queue, messages, ngot_sentinel, behind>>
       ELSE /\ queue' = Tail(queue)
            /\ IF Head(queue) = None
               THEN /\ wpc' = "final"
                    /\ ngot_sentinel' = ngot_sentinel + 1
                    /\ behind' = Payloads(Tail(queue))
                    /\ UNCHANGED messages
               ELSE /\ wpc' = "drain"
                    /\ messages' = Collect(messages, Head(queue))
                    /\ UNCHANGED <<ngot_sentinel, behind>>
    /\ UNCHANGED <<interval, maxsize, since_check, timeout_left, sent, ppc,
                   pmsg, pres, pargs, spc, sres, snap, nsends, nstops, enq,
                   nsentinels, since_flush, interval0,
                   rets, dropped>>

\* a check that sends every time it is reached
TimeToSendAlways(elapsed, ival) == TRUE

\* a check that sends only after more than an interval
TimeToSendLate(elapsed, ival) == elapsed > ival

\* a thread that calls send_socket whether or not it holds messages
HasMessagesAlways(msgs) == TRUE

\* lines 170 and 175: if messages
HasMessages(msgs) == msgs # <<>>

\* line 168: current_time - last_check_time >= self.interval
TimeToSend(elapsed, ival) == elapsed >= ival

\* a thread that keeps the batch of a failed send_socket call for the next
AfterSendKeepFailed(msgs, ok) == IF ok THEN <<>> ELSE msgs

\* a thread that does not empty its list after a periodic flush
AfterSendKeep(msgs, ok) == msgs

\* line 172: messages = [], whatever send_socket did (it never raises)
AfterSend(msgs, ok) == <<>>

\* lines 167-172: the flush check, and the periodic flush
WorkerCheck ==
    /\ wpc = "check"
    /\ IF TimeToSend(since_check, interval)
       THEN /\ since_check' = 0
            /\ IF HasMessages(messages)
               THEN /\ \E ok \in BOOLEAN :
                         /\ sent' = SendSocket(sent, "periodic", messages, ok)
                         /\ messages' = AfterSend(messages, ok)
                    /\ since_flush' = 0
               ELSE UNCHANGED <<sent, messages, since_flush>>
       ELSE UNCHANGED <<since_check, sent, messages, since_flush>>
    /\ wpc' = "wait"
    /\ UNCHANGED <<interval, maxsize, queue, timeout_left, ppc, pmsg, pres, pargs,
                   spc, sres, snap, nsends, nstops, enq, nsentinels,
                   ngot_sentinel, interval0,
                   rets, dropped, behind>>

\* lines 174-176: the final flush, then the thread ends; with it end its
\* clock readings (last_check_time), which nothing reads again
WorkerFinal ==
    /\ wpc = "final"
    /\ IF HasMessages(messages)
       THEN \E ok \in BOOLEAN :
               sent' = SendSocket(sent, "final", messages, ok)
       ELSE UNCHANGED sent
    /\ wpc' = "done"
    /\ since_check' = 0
    /\ since_flush' = 0
    /\ UNCHANGED <<interval, maxsize, queue, timeout_left,
                   messages, ppc, pmsg, pres, pargs, spc, sres, snap, nsends, nstops,
                   enq, nsentinels, ngot_sentinel, interval0,
                   rets, dropped, behind>>

\* the loop of lines 136-172, and the whole thread
WorkerLoop == WorkerStart \/ WorkerWait \/ WorkerGet \/ WorkerDrain
                 \/ WorkerCheck
Worker == WorkerLoop \/ WorkerFinal

\* ---- send, lines 82-97 ----

\* a build_message that only refuses the empty metric
ValidMetricNonEmpty(metric) == metric # <<>>

\* line 67: not metric or metric.split(None, 1)[0] != metric raises; a
\* metric passes when it is not empty and holds no whitespace
ValidMetric(metric) ==
    metric # <<>> /\ \A i \in 1..Len(metric) : metric[i] # " "

\* line 69: isinstance(value, (int, float))
ValidValue(value) == value \in {"int", "float"}

\* a send() that always takes the queue path
SyncModeNever(ival) == FALSE

\* line 91: if self.interval is None
SyncMode(ival) == ival = None

\* lines 87-92: build_message, then the test of self.interval.  A metric or
\* value build_message rejects raises out of send() (lines 67-71); in
\* synchronous mode the message goes straight to send_socket.
SendBegin(p, metric, value) ==
    /\ ppc[p] = "idle"
    /\ nsends < MaxSends
    /\ nsends' = nsends + 1
    /\ pargs' = [pargs EXCEPT ![p] = <<metric, value>>]
    /\ IF ~(ValidMetric(metric) /\ ValidValue(value))
       THEN /\ pres' = [pres EXCEPT ![p] = "raised"]
            /\ UNCHANGED <<ppc, pmsg, sent>>
       ELSE IF SyncMode(interval)
       THEN /\ \E ok \in BOOLEAN :
                  sent' = SendSocket(sent, "sync", <<nsends + 1>>, ok)
            /\ pres' = [pres EXCEPT ![p] = "sync"]
            /\ UNCHANGED <<ppc, pmsg>>
       ELSE /\ ppc' = [ppc EXCEPT ![p] = "put"]
            /\ pmsg' = [pmsg EXCEPT ![p] = nsends + 1]
            /\ pres' = [pres EXCEPT ![p] = "calling"]
            /\ UNCHANGED sent
    /\ UNCHANGED <<interval, maxsize, queue, wpc, since_check, timeout_left,
                   messages, spc, sres, snap, nstops, enq, nsentinels,
                   ngot_sentinel, since_flush, interval0,
                   rets, dropped, behind>>

\* a send() that returns 1 for a payload it dropped
SendReturnOutcome(outcome) == IF outcome = "full" THEN 1 ELSE None

\* lines 93-97: send() has no return statement, it returns None whether
\* put_nowait took the message or raised queue.Full
SendReturn(outcome) == None

\* lines 94-97: put_nowait; queue.Full is caught and logged
SendPut(p) ==
    /\ ppc[p] = "put"
    /\ IF QueueFull(queue, maxsize)
       THEN /\ pres' = [pres EXCEPT ![p] = "full"]
            /\ dropped' = Append(dropped, pmsg[p])
            /\ rets' = [rets EXCEPT !["full"] = @ \cup {SendReturn("full")}]
            /\ UNCHANGED <<queue, enq>>
       ELSE /\ queue' = Append(queue, pmsg[p])
            /\ enq' = Append(enq, pmsg[p])
            /\ pres' = [pres EXCEPT ![p] = "queued"]
            /\ rets' = [rets EXCEPT !["queued"] = @ \cup {SendReturn("queued")}]
            /\ UNCHANGED dropped
    /\ ppc' = [ppc EXCEPT ![p] = "idle"]
    /\ UNCHANGED <<interval, maxsize, wpc, since_check, timeout_left,
                   messages, sent, pmsg, pargs, spc, sres, snap, nsends,
                   nstops, nsentinels, ngot_sentinel, since_flush, interval0,
                   behind>>

\* ---- stop, lines 56-63 ----

\* a stop() that does not look at self.interval
StopNeededAlways(ival) == TRUE

\* line 60: if self.interval is not None
StopNeeded(ival) == ival # None

\* line 60: the test of self.interval
StopBegin(s) ==
    /\ spc[s] = "idle"
    /\ nstops < MaxStops
    /\ nstops' = nstops + 1
    /\ IF ~StopNeeded(interval)
       THEN /\ sres' = [sres EXCEPT ![s] = "noop"]
            /\ UNCHANGED <<spc, snap>>
       ELSE /\ spc' = [spc EXCEPT ![s] = "put"]
            /\ sres' = [sres EXCEPT ![s] = "calling"]
            /\ snap' = [snap EXCEPT ![s] = {enq[i] : i \in 1..Len(enq)}]
    /\ UNCHANGED <<interval, maxsize, queue, wpc, since_check, timeout_left,
                   messages, sent, ppc, pmsg, pres, pargs, nsends, enq, nsentinels,
                   ngot_sentinel, since_flush, interval0,
                   rets, dropped, behind>>

\* line 61: self._queue.put_nowait(None); queue.Full is not caught here, so
\* it raises out of stop()
StopPut(s) ==
    /\ spc[s] = "put"
    /\ IF QueueFull(queue, maxsize)
       THEN /\ spc' = [spc EXCEPT ![s] = "idle"]
            /\ sres' = [sres EXCEPT ![s] = "raised"]
            /\ UNCHANGED <<queue, nsentinels>>
       ELSE /\ queue' = Append(queue, None)
            /\ nsentinels' = nsentinels + 1
            /\ spc' = [spc EXCEPT ![s] = "join"]
            /\ UNCHANGED sres
    /\ UNCHANGED <<interval, maxsize, wpc, since_check, timeout_left,
                   messages, sent, ppc, pmsg, pres, pargs, snap, nsends, nstops, enq,
                   ngot_sentinel, since_flush, interval0,
                   rets, dropped, behind>>

\* a stop() that does not wait for the thread
JoinedAtOnce(pc) == TRUE

\* line 62: self._thread.join() returns once the thread has ended
Joined(pc) == pc = "done"

\* a stop() that also empties the thread's list of messages
StopJoinClears(s) ==
    /\ spc[s] = "join"
    /\ Joined(wpc)
    /\ interval' = None
    /\ messages' = <<>>
    /\ spc' = [spc EXCEPT ![s] = "idle"]
    /\ sres' = [sres EXCEPT ![s] = "returned"]
    /\ UNCHANGED <<maxsize, queue, wpc, since_check, timeout_left,
                   sent, ppc, pmsg, pres, pargs, snap, nsends, nstops, enq,
                   nsentinels, ngot_sentinel, since_flush, interval0,
                   rets, dropped, behind>>

\* lines 62-63: join, then self.interval = None
StopJoin(s) ==
    /\ spc[s] = "join"
    /\ Joined(wpc)
    /\ interval' = None
    /\ spc' = [spc EXCEPT ![s] = "idle"]
    /\ sres' = [sres EXCEPT ![s] = "returned"]
    /\ UNCHANGED <<maxsize, queue, wpc, since_check, timeout_left, messages,
                   sent, ppc, pmsg, pres, pargs, snap, nsends, nstops, enq,
                   nsentinels, ngot_sentinel, since_flush, interval0,
                   rets, dropped, behind>>

Send == \E p \in Producers :
           \/ \E metric \in Metrics, value \in Values :
                 SendBegin(p, metric, value)
           \/ SendPut(p)
Stop == \E s \in Stoppers : StopBegin(s) \/ StopPut(s) \/ StopJoin(s)

Next == Tick \/ Worker \/ Send \/ Stop

Spec == Init /\ [][Next]_vars

\* The handle while nobody calls stop(): the thread runs whenever it can, the
\* clock advances and a send() that has begun finishes.
NextNoStop == Tick \/ WorkerLoop \/ Send

LiveSpec == /\ Init /\ [][NextNoStop]_vars
            /\ WF_vars(WorkerLoop) /\ WF_vars(Tick)
            /\ \A p \in Producers : WF_vars(SendPut(p))

\* ---- what the claims speak of ----

\* the calls of send_socket made by the background thread
WorkerCalls(log) == {i \in 1..Len(log) : log[i].who \in {"periodic", "final"}}

RECURSIVE WorkerDelivered(_)
\* the payloads the background thread handed to send_socket, in call order
WorkerDelivered(log) ==
    IF log = <<>> THEN <<>>
    ELSE LET rest == WorkerDelivered(SubSeq(log, 1, Len(log) - 1))
             last == log[Len(log)]
         IN  IF last.who = "sync" THEN rest ELSE rest \o last.batch

Elems(sq) == {sq[i] : i \in 1..Len(sq)}

\* the place of x in sq (0 when it is not there)
Pos(sq, x) == IF \E i \in 1..Len(sq) : sq[i] = x
              THEN CHOOSE i \in 1..Len(sq) : sq[i] = x ELSE 0

\* the handle was constructed with an interval
Buffered == interval0 # None

\* some stop() call has put None on the queue, joined the thread and returned
StopHasReturned ==
    Buffered /\ \E s \in Stoppers : sres[s] \in {"returned", "noop"}

\* this step appended a call of send_socket by `who`
Called(who) ==
    /\ Len(sent') = Len(sent) + 1
    /\ sent'[Len(sent')].who = who

\* ---- C1 ----
\* C1: when a stop() call on a buffered handle has returned, every payload
\* that was accepted into the queue before that call began has been passed
\* to send_socket by the background thread.
C1_StopDeliversAccepted ==
    \A s \in Stoppers :
        sres[s] = "returned" => snap[s] \subseteq Elems(WorkerDelivered(sent))

\* ---- C2 ----
\* C2: the payloads the background thread hands to send_socket, taken in
\* the order of the calls and within each call, were all accepted into the
\* queue and come in the order in which they were put there.
C2_DeliveredInPutOrder ==
    LET d == WorkerDelivered(sent)
    IN  /\ \A i \in 1..Len(d) : Pos(enq, d[i]) > 0
        /\ \A i, j \in 1..Len(d) : i < j => Pos(enq, d[i]) < Pos(enq, d[j])

\* two payloads in one call, or two calls that delivered a payload each
C2_Witness ==
    /\ Len(WorkerDelivered(sent)) >= 2
    /\ Cardinality(WorkerCalls(sent)) >= 1

\* ---- C3 ----
\* C3: a stop() call that found the handle buffered never ends without its
\* stop signal: once it has ended it has returned after the join, it has
\* not raised out of stop() with the signal dropped, full queue or not.
C3_StopSignalNeverLost ==
    \A s \in Stoppers :
        (spc[s] = "idle" /\ sres[s] \notin {"none", "noop"})
            => sres[s] = "returned"

\* ---- C4 ----
\* C4: the put of a buffered send() is always able to run (it never waits
\* for room); on a queue at capacity it leaves the queue as it was and ends
\* the call as "full" without raising, below capacity it appends the
\* payload at the tail.
C4_SendNeverBlocks ==
    /\ [](\A p \in Producers : ppc[p] = "put" => ENABLED SendPut(p))
    /\ [][\A p \in Producers :
            (ppc[p] = "put" /\ ppc'[p] = "idle") =>
               IF maxsize > 0 /\ Len(queue) >= maxsize
               THEN queue' = queue /\ pres'[p] = "full"
               ELSE queue' = queue \o <<pmsg[p]>> /\ pres'[p] = "queued"]_vars

\* a payload was dropped on a full queue
C4_Witness ==
    \E p \in Producers : pres[p] = "full" /\ Len(enq) >= 1

\* ---- C5 ----
\* C5: a stop() call that begins after a stop() has returned ends in the
\* same step, puts nothing on the queue and calls send_socket not at all;
\* and the final flush is made at most once.
C5_StopIdempotent ==
    /\ [](Cardinality({i \in 1..Len(sent) : sent[i].who = "final"}) <= 1)
    /\ [][(StopHasReturned /\ nstops' = nstops + 1) =>
             /\ queue' = queue
             /\ sent' = sent
             /\ spc' = spc
             /\ nsentinels' = nsentinels]_vars

\* a second stop() has ended after the first one returned and flushed
C5_Witness ==
    /\ Buffered
    /\ \E s \in Stoppers : sres[s] = "noop"
    /\ \E i \in 1..Len(sent) : sent[i].who = "final"

\* ---- C6 ----
\* C6: while the handle is buffered and no payload has been accepted,
\* send_socket has not been called; and the background thread never calls
\* send_socket with an empty batch.
C6_NoEmptyFlush ==
    /\ (interval # None /\ enq = <<>>) => sent = <<>>
    /\ \A i \in WorkerCalls(sent) : sent[i].batch # <<>>

\* the thread has stopped, a whole interval went by, nothing was accepted
C6_Witness ==
    /\ Buffered /\ wpc = "done" /\ enq = <<>>
    /\ \E s \in Stoppers : sres[s] = "returned"

\* ---- C7 ----
\* C7: a periodic flush hands the whole buffer to send_socket in one call
\* and empties it, and when an earlier periodic flush exists at least one
\* interval of clock ticks lies between the two.
C7_OneFlushPerInterval ==
    [][Called("periodic") =>
          /\ sent'[Len(sent')].batch = messages
          /\ messages' = <<>>
          /\ PeriodicCalls(sent) # {} => since_flush >= interval0]_vars

\* two periodic flushes have been made
C7_Witness == Cardinality(PeriodicCalls(sent)) >= 2

C9_StopJoinsThread ==
    /\ []((\E s \in Stoppers : sres[s] = "returned") => wpc = "done")
    /\ [][StopHasReturned =>
             /\ WorkerCalls(sent') = WorkerCalls(sent)
             /\ Len(queue') >= Len(queue)
             /\ ngot_sentinel' = ngot_sentinel
             /\ wpc' = wpc]_vars

\* a stop() returned after the thread made its final flush
C9_Witness ==
    /\ \E s \in Stoppers : sres[s] = "returned"
    /\ \E i \in 1..Len(sent) : sent[i].who = "final"

\* ---- C10 ----
\* C10: over the lifetime of a handle stop() puts the stop signal on the
\* queue at most once, whoever calls it and however the calls interleave.
C10_OneStopSignal == nsentinels <= 1

\* ---- C11 ----
\* C11: a send_socket call of the thread that failed is never made again:
\* its payloads are in no later call, not on the queue and not in the
\* thread's list; and a failed periodic flush leaves the list empty, the
\* queue as it was and the thread in its loop.
C11_FailedFlushDropped ==
    /\ [](\A i \in WorkerCalls(sent) :
            (sent[i].who = "periodic" /\ ~sent[i].ok) =>
               \A m \in Elems(sent[i].batch) :
                  /\ \A j \in WorkerCalls(sent) :
                        j # i => m \notin Elems(sent[j].batch)
                  /\ m \notin Elems(queue)
                  /\ m \notin Elems(messages))
    /\ [][(Called("periodic") /\ ~sent'[Len(sent')].ok) =>
             /\ messages' = <<>>
             /\ queue' = queue
             /\ wpc' = "wait"]_vars

\* after a failed periodic flush the thread flushed a later batch and
\* stop() returned
C11_Witness ==
    /\ \E i, j \in WorkerCalls(sent) :
          i < j /\ sent[i].who = "periodic" /\ ~sent[i].ok
    /\ \E s \in Stoppers : sres[s] = "returned"

\* ---- C12 ----
\* C12: the queue of a buffered handle has a capacity of at least 1,
\* whatever the interval (interval-seconds times 100 when no queue_size is
\* given), and never holds more elements than that.
C12_CapacityAtLeastOne ==
    Buffered => (maxsize >= 1 /\ Len(queue) <= maxsize)

\* ---- C13 ----
\* C13: a send() whose metric is empty or holds whitespace, or whose value
\* is not a number, ends by raising in the step that began it and changes
\* nothing else: queue, accepted payloads, send_socket calls, the handle's
\* mode, the thread and its list stay as they were.
C13_InvalidSendNoEffect ==
    [][\A p \in Producers :
          (ppc[p] = "idle" /\ nsends' = nsends + 1)
          => LET metric == pargs'[p][1]
                 value == pargs'[p][2]
                 bad == \/ metric = <<>>
                        \/ \E i \in 1..Len(metric) : metric[i] = " "
                        \/ value \notin {"int", "float"}
             IN  bad => /\ pres'[p] = "raised"
                        /\ ppc' = ppc /\ pmsg' = pmsg
                        /\ queue' = queue /\ enq' = enq /\ sent' = sent
                        /\ interval' = interval /\ wpc' = wpc
                        /\ messages' = messages
                        /\ since_check' = since_check
                        /\ spc' = spc /\ sres' = sres]_vars

\* the first send() raised and the second, a valid one, was accepted and
\* flushed
C13_Witness ==
    /\ enq = <<2>>
    /\ 2 \in Elems(WorkerDelivered(sent))

\* ---- C14 ----
\* C14: on a handle constructed without an interval there is no queue
\* content and no thread; a valid send() makes, in the step of the call,
\* exactly one send_socket call whose payload is that call's message;
\* nothing else calls send_socket; and stop() ends at once, changing
\* nothing.
C14_SynchronousSend ==
    /\ [](~Buffered =>
            /\ queue = <<>> /\ enq = <<>> /\ wpc = "none"
            /\ \A i \in 1..Len(sent) : sent[i].who = "sync")
    /\ [][~Buffered =>
            /\ \A p \in Producers :
                 (ppc[p] = "idle" /\ nsends' = nsends + 1
                    /\ pres'[p] # "raised")
                 => /\ Len(sent') = Len(sent) + 1
                    /\ SubSeq(sent', 1, Len(sent)) = sent
                    /\ sent'[Len(sent')].who = "sync"
                    /\ sent'[Len(sent')].batch = <<nsends + 1>>
                    /\ pres'[p] = "sync"
                    /\ ppc' = ppc
            /\ nsends' = nsends => sent' = sent
            /\ nstops' = nstops + 1 =>
                 /\ spc' = spc /\ interval' = interval
                 /\ queue' = queue /\ sent' = sent]_vars

\* two synchronous sends and a stop() on a handle without an interval
C14_Witness ==
    /\ ~Buffered
    /\ Len(sent) = 2
    /\ \E s \in Stoppers : sres[s] = "noop"

C16_SentinelDrainsQueue ==
    [][(wpc = "final" /\ wpc' = "done")
          => /\ behind \subseteq Elems(messages)
             /\ behind \cap Payloads(queue') = {}]_vars

\* ---- C17 ----
\* a step of send() or stop(): a call begins or moves to its next statement
ProducerStep == <<ppc, spc, nsends, nstops>>' # <<ppc, spc, nsends, nstops>>

\* a step of the thread: it moves on in _thread_loop or takes a message
ThreadStep == wpc' # wpc \/ messages' # messages

\* C17: no step of send() or stop() changes the thread's list of messages,
\* its last-check time or where the thread stands, no step of the thread
\* changes what send() and stop() write (self.interval, their own results),
\* and so the queue is the one part of the Sender both sides change (sent,
\* the record of send_socket calls, is the network, not the Sender).
C17_ThreadOwnsBuffer ==
    [][/\ ProducerStep
          => UNCHANGED <<messages, since_check, since_flush, timeout_left,
                         wpc, ngot_sentinel, behind>>
       /\ ThreadStep
          => UNCHANGED <<interval, maxsize, ppc, pmsg, pres, pargs, rets,
                         dropped, spc, sres, snap, nsends, nstops, enq,
                         nsentinels>>]_vars

\* send() has queued a second message while the thread held the first in
\* its list, and stop() waits for the thread, which still runs
C17_Witness ==
    /\ messages # <<>>
    /\ wpc \notin {"final", "done"}
    /\ \E s \in Stoppers : spc[s] = "join"
    /\ \E p \in Producers :
          pres[p] = "queued" /\ pmsg[p] \notin Elems(messages)

\* ---- C18 ----
\* C18: the timeout the thread gives its blocking get is the interval less
\* the time since the last check, and 0 when that time has reached the
\* interval: it is never negative and never above the interval, and what is
\* left of it while the thread waits in the get never is either.
C18_TimeoutClamped ==
    [][/\ (wpc = "wait" /\ wpc' = "get")
          => /\ timeout_left' = IF since_check >= interval THEN 0
                                ELSE interval - since_check
             /\ since_check >= interval => timeout_left' = 0
       /\ wpc' = "get" => timeout_left' >= 0 /\ timeout_left' <= interval']_vars

\* the thread has entered the get with the check overdue and a timeout of 0
C18_Witness == wpc = "get" /\ since_check > interval /\ timeout_left = 0

\* ---- C19 ----
\* no payload occurs twice among those the thread handed to send_socket
NoPayloadTwice(log) ==
    LET d == WorkerDelivered(log)
    IN  \A i, j \in 1..Len(d) : d[i] = d[j] => i = j

LaterSendIsSync ==
    StopHasReturned =>
       \A p \in Producers :
          (ppc[p] = "idle" /\ nsends' = nsends + 1 /\ pres'[p] # "raised")
          => /\ Len(sent') = Len(sent) + 1
             /\ sent'[Len(sent')].who = "sync"
             /\ sent'[Len(sent')].batch = <<nsends + 1>>
             /\ ppc' = ppc /\ queue' = queue /\ enq' = enq

\* C20: after stop() has returned on a handle constructed with an interval,
\* every send() that begins is synchronous, and no payload is put on the
\* queue of a thread that has ended.
C20_NoPutAfterThreadEnd ==
    [][/\ LaterSendIsSync
       /\ (Buffered /\ wpc = "done") => enq' = enq]_vars

====
